---- MODULE Spec2Model ----
(***************************************************************************)
(* Broadcast bot (src/main.py): the draft-building conversation of one     *)
(* operator session per identity, and the fan-out do_broadcast that sends  *)
(* a finished draft to every registered user.                              *)
(*                                                                         *)
(* Texts are sequences of one-character strings, so that strip(), lower()  *)
(* and startswith() are computed as Python computes them.  Optional[str]   *)
(* texts use the sentinel NoneText; file ids are plain strings with the    *)
(* sentinel None.                                                          *)
(***************************************************************************)
EXTENDS Integers, Sequences, FiniteSets, TLC

\* ------------------------------------------------------------------ bounds
\* Longest button list a draft may grow to (the code has no limit).
MaxButtons == 2

\* ------------------------------------------------------------------ strings
None == "None"
NoneText == <<"None">>

UpperLetters == <<"A","B","C","D","E","F","G","H","I","J","K","L","M",
                  "N","O","P","Q","R","S","T","U","V","W","X","Y","Z">>
LowerLetters == <<"a","b","c","d","e","f","g","h","i","j","k","l","m",
                  "n","o","p","q","r","s","t","u","v","w","x","y","z">>
Digits == {"0","1","2","3","4","5","6","7","8","9"}
Whitespace == {" ", "\t", "\n", "\r"}

\* the upper-case letters, each with its lower-case letter
LowerOf == [c \in {UpperLetters[i] : i \in 1..26} |->
               LowerLetters[CHOOSE i \in 1..26 : UpperLetters[i] = c]]

\* str.lower() on one character
LowerChar(c) == IF c \in DOMAIN LowerOf THEN LowerOf[c] ELSE c

\* str.lower()
lower(s) == [i \in 1..Len(s) |-> LowerChar(s[i])]

\* str.lstrip(), str.rstrip(), str.strip()
RECURSIVE lstrip(_)
lstrip(s) == IF s # <<>> /\ Head(s) \in Whitespace THEN lstrip(Tail(s)) ELSE s

RECURSIVE rstrip(_)
rstrip(s) ==
    IF s # <<>> /\ s[Len(s)] \in Whitespace
    THEN rstrip(SubSeq(s, 1, Len(s) - 1))
    ELSE s

strip(s) == rstrip(lstrip(s))

\* str.startswith(p), str.endswith(p)
startswith(s, p) == Len(s) >= Len(p) /\ SubSeq(s, 1, Len(p)) = p
endswith(s, p) == Len(s) >= Len(p) /\ SubSeq(s, Len(s) - Len(p) + 1, Len(s)) = p

\* s[n:]
DropFirst(s, n) == SubSeq(s, n + 1, Len(s))

\* html.escape of one character, as Message.text_html applies it to the
\* text outside the message's entities
EscapeChar(c) ==
    CASE c = "<" -> <<"&","l","t",";">>
      [] c = ">" -> <<"&","g","t",";">>
      [] c = "&" -> <<"&","a","m","p",";">>
      [] OTHER -> <<c>>

RECURSIVE escape(_)
escape(s) == IF s = <<>> THEN <<>> ELSE EscapeChar(Head(s)) \o escape(Tail(s))

\* [ \t]+ collapsed to one space (re.sub at line 34)
RECURSIVE lstripBlank(_)
lstripBlank(s) == IF s # <<>> /\ Head(s) \in {" ", "\t"} THEN lstripBlank(Tail(s)) ELSE s

RECURSIVE collapse(_)
collapse(s) ==
    IF s = <<>> THEN <<>>
    ELSE IF Head(s) \in {" ", "\t"} THEN <<" ">> \o collapse(lstripBlank(s))
    ELSE <<Head(s)>> \o collapse(Tail(s))

\* [A-Za-z0-9_]
NameChars ==
    {UpperLetters[i] : i \in 1..26} \cup {LowerLetters[i] : i \in 1..26}
        \cup Digits \cup {"_"}

IsNameChar(c) == c \in NameChars

\* length of the longest prefix / suffix of s made of [A-Za-z0-9_]
RECURSIVE LeadingNameLen(_)
LeadingNameLen(s) ==
    IF s # <<>> /\ IsNameChar(Head(s)) THEN 1 + LeadingNameLen(Tail(s)) ELSE 0

RECURSIVE TrailingNameLen(_)
TrailingNameLen(s) ==
    IF s # <<>> /\ IsNameChar(s[Len(s)])
    THEN 1 + TrailingNameLen(SubSeq(s, 1, Len(s) - 1))
    ELSE 0

CmdStart == <<"/","s","t","a","r","t">>
CmdSetting == <<"/","s","e","t","t","i","n","g">>

\* _CMD_EDGE.sub("", text): a leading /start or /setting, an optional @name
\* and the whitespace around them are removed
StripCmdHead(text) ==
    LET t == lstrip(text)
        n == IF startswith(lower(t), CmdStart) THEN Len(CmdStart)
             ELSE IF startswith(lower(t), CmdSetting) THEN Len(CmdSetting)
             ELSE 0
        a == DropFirst(t, n)
        k == IF a # <<>> /\ Head(a) = "@" THEN LeadingNameLen(Tail(a)) ELSE 0
        b == IF k > 0 THEN DropFirst(a, k + 1) ELSE a
    IN  IF n = 0 THEN text ELSE lstrip(b)

\* the length of a trailing /start or /setting of r, 0 when there is none
TailCmdLen(r) ==
    IF endswith(lower(r), CmdStart) THEN Len(CmdStart)
    ELSE IF endswith(lower(r), CmdSetting) THEN Len(CmdSetting)
    ELSE 0

\* _CMD_EDGE_TAIL.sub("", txt): a trailing /start or /setting, an optional
\* @name and the whitespace around them are removed
StripCmdTail(txt) ==
    LET r == rstrip(txt)
        k == TrailingNameLen(r)
        q == IF k > 0 /\ Len(r) > k /\ r[Len(r) - k] = "@"
             THEN SubSeq(r, 1, Len(r) - k - 1) ELSE <<>>
    IN  IF TailCmdLen(r) > 0 THEN rstrip(SubSeq(r, 1, Len(r) - TailCmdLen(r)))
        ELSE IF TailCmdLen(q) > 0 THEN rstrip(SubSeq(q, 1, Len(q) - TailCmdLen(q)))
        ELSE txt

sanitize_welcome(text) ==
    IF text = <<>> THEN <<>>
    ELSE strip(collapse(StripCmdTail(StripCmdHead(text))))

\* ------------------------------------------------------------------ state types
\* class Step
ASK_TEXT == "ASK_TEXT"
ASK_MEDIA == "ASK_MEDIA"
ASK_ADD_BUTTON == "ASK_ADD_BUTTON"
ASK_BUTTON_TEXT == "ASK_BUTTON_TEXT"
ASK_BUTTON_URL == "ASK_BUTTON_URL"
PREVIEW == "PREVIEW"
SET_WELCOME == "SET_WELCOME"
ADD_LINK_TITLE == "ADD_LINK_TITLE"
ADD_LINK_URL == "ADD_LINK_URL"
IDLE == "IDLE"

ButtonDef(text, url) == [text |-> text, url |-> url]

\* BroadcastDraft()
BroadcastDraft ==
    [text |-> <<>>, photo_file_id |-> None, video_file_id |-> None,
     animation_file_id |-> None, buttons |-> <<>>]

\* Session(); temp_link_title carries a promo-link title to the settings
\* store and is kept as set / not set only
Session ==
    [step |-> IDLE, draft |-> BroadcastDraft, temp_button_text |-> NoneText,
     temp_link_title |-> FALSE]

\* ensure_session(uid) on the sessions dictionary ss
\* ensure_session keeping the entry of the caller only
ensure_session_single(ss, uid) ==
    [u \in {uid} |-> IF u \in DOMAIN ss THEN ss[u] ELSE Session]

ensure_session(ss, uid) == IF uid \in DOMAIN ss THEN ss ELSE ss @@ (uid :> Session)

\* ------------------------------------------------------------------ inputs
\* A message as Telegram delivers it: text, or one attachment, or neither.
Msg(text, photo, video, animation) ==
    [text |-> text, photo |-> photo, video |-> video, animation |-> animation]

TextMsg(text) == Msg(text, <<>>, None, None)
PhotoMsg == Msg(NoneText, <<"photo_s", "photo_l">>, None, None)
VideoMsg == Msg(NoneText, <<>>, "video_1", None)
AnimationMsg == Msg(NoneText, <<>>, None, "anim_1")
StickerMsg == Msg(NoneText, <<>>, None, None)

\* "not msg.text"
NoText(msg) == msg.text = NoneText \/ msg.text = <<>>

\* Message.text_html: the text with HTML-special characters escaped
text_html(msg) == IF NoText(msg) THEN msg.text ELSE escape(msg.text)

\* ------------------------------------------------------------------ handle_message
Out(s, reply) == [s |-> s, reply |-> reply]

\* is_http_url comparing the prefix as typed, capitals included
is_http_url_cased(text) ==
    \/ startswith(strip(text), <<"h","t","t","p",":","/","/">>)
    \/ startswith(strip(text), <<"h","t","t","p","s",":","/","/">>)

\* the test of line 674 (and 690) on the text of a message
is_http_url(text) ==
    \/ startswith(lower(strip(text)), <<"h","t","t","p",":","/","/">>)
    \/ startswith(lower(strip(text)), <<"h","t","t","p","s",":","/","/">>)

StrBroadcast == <<"/","b","r","o","a","d","c","a","s","t">>
StrSkip == <<"s","k","i","p">>
YesWords == { <<"y","a">>, <<"y","e","s">>, <<"y">> }
NoWords == { <<"t","i","d","a","k">>, <<"n","o">>, <<"n">> }

set_welcome(s, msg) ==
    LET cleaned == sanitize_welcome(IF msg.text = NoneText THEN <<>> ELSE msg.text)
    IN  IF cleaned = <<>> \/ startswith(cleaned, <<"/">>)
           \/ lower(cleaned) \in {CmdStart, CmdSetting}
        THEN Out(s, "welcome_has_command")
        ELSE Out([s EXCEPT !.step = IDLE], "welcome_updated")

\* ask_text taking an empty text as well
ask_text_any(s, msg) ==
    IF msg.text = NoneText \/ lower(strip(msg.text)) = StrBroadcast
    THEN Out(s, "reprompt_text")
    ELSE Out([s EXCEPT !.draft.text = IF text_html(msg) # <<>> THEN text_html(msg)
                                      ELSE msg.text,
                       !.step = ASK_MEDIA], "ask_media")

\* ask_text keeping the trimmed plain text
ask_text_trimmed(s, msg) ==
    IF NoText(msg) \/ lower(strip(msg.text)) = StrBroadcast
    THEN Out(s, "reprompt_text")
    ELSE Out([s EXCEPT !.draft.text = strip(msg.text), !.step = ASK_MEDIA], "ask_media")

ask_text(s, msg) ==
    IF NoText(msg) \/ lower(strip(msg.text)) = StrBroadcast
    THEN Out(s, "reprompt_text")
    ELSE Out([s EXCEPT !.draft.text = IF text_html(msg) # <<>> THEN text_html(msg)
                                      ELSE msg.text,
                       !.step = ASK_MEDIA], "ask_media")

\* ask_media with the video branch writing the photo field
ask_media_wrong_field(s, msg) ==
    IF ~NoText(msg) /\ lower(strip(msg.text)) = StrSkip
    THEN Out([s EXCEPT !.step = ASK_ADD_BUTTON], "ask_add_button")
    ELSE IF msg.photo # <<>>
    THEN Out([s EXCEPT !.draft.photo_file_id = msg.photo[Len(msg.photo)],
                       !.draft.video_file_id = None,
                       !.draft.animation_file_id = None,
                       !.step = ASK_ADD_BUTTON], "ask_add_button")
    ELSE IF msg.video # None
    THEN Out([s EXCEPT !.draft.photo_file_id = msg.video,
                       !.draft.video_file_id = None,
                       !.draft.animation_file_id = None,
                       !.step = ASK_ADD_BUTTON], "ask_add_button")
    ELSE IF msg.animation # None
    THEN Out([s EXCEPT !.draft.animation_file_id = msg.animation,
                       !.draft.photo_file_id = None,
                       !.draft.video_file_id = None,
                       !.step = ASK_ADD_BUTTON], "ask_add_button")
    ELSE Out(s, "reprompt_media")

\* ask_media going on to the buttons after an input it does not know
ask_media_moves_on(s, msg) ==
    IF ~NoText(msg) /\ lower(strip(msg.text)) = StrSkip
    THEN Out([s EXCEPT !.step = ASK_ADD_BUTTON], "ask_add_button")
    ELSE IF msg.photo # <<>>
    THEN Out([s EXCEPT !.draft.photo_file_id = msg.photo[Len(msg.photo)],
                       !.draft.video_file_id = None,
                       !.draft.animation_file_id = None,
                       !.step = ASK_ADD_BUTTON], "ask_add_button")
    ELSE IF msg.video # None
    THEN Out([s EXCEPT !.draft.video_file_id = msg.video,
                       !.draft.photo_file_id = None,
                       !.draft.animation_file_id = None,
                       !.step = ASK_ADD_BUTTON], "ask_add_button")
    ELSE IF msg.animation # None
    THEN Out([s EXCEPT !.draft.animation_file_id = msg.animation,
                       !.draft.photo_file_id = None,
                       !.draft.video_file_id = None,
                       !.step = ASK_ADD_BUTTON], "ask_add_button")
    ELSE Out([s EXCEPT !.step = ASK_ADD_BUTTON], "ask_add_button")

ask_media(s, msg) ==
    IF ~NoText(msg) /\ lower(strip(msg.text)) = StrSkip
    THEN Out([s EXCEPT !.step = ASK_ADD_BUTTON], "ask_add_button")
    ELSE IF msg.photo # <<>>
    THEN Out([s EXCEPT !.draft.photo_file_id = msg.photo[Len(msg.photo)],
                       !.draft.video_file_id = None,
                       !.draft.animation_file_id = None,
                       !.step = ASK_ADD_BUTTON], "ask_add_button")
    ELSE IF msg.video # None
    THEN Out([s EXCEPT !.draft.video_file_id = msg.video,
                       !.draft.photo_file_id = None,
                       !.draft.animation_file_id = None,
                       !.step = ASK_ADD_BUTTON], "ask_add_button")
    ELSE IF msg.animation # None
    THEN Out([s EXCEPT !.draft.animation_file_id = msg.animation,
                       !.draft.photo_file_id = None,
                       !.draft.video_file_id = None,
                       !.step = ASK_ADD_BUTTON], "ask_add_button")
    ELSE Out(s, "reprompt_media")

\* ask_add_button knowing its words in lower case only
ask_add_button_cased(s, msg) ==
    IF ~NoText(msg) /\ strip(msg.text) \in YesWords
    THEN Out([s EXCEPT !.step = ASK_BUTTON_TEXT], "ask_button_text")
    ELSE IF ~NoText(msg) /\ strip(msg.text) \in NoWords
    THEN Out([s EXCEPT !.step = PREVIEW], "preview")
    ELSE Out(s, "none")

\* lines 656-664; an unrecognised input falls through every later test of
\* handle_message and the handler ends without a reply
ask_add_button(s, msg) ==
    IF ~NoText(msg) /\ lower(strip(msg.text)) \in YesWords
    THEN Out([s EXCEPT !.step = ASK_BUTTON_TEXT], "ask_button_text")
    ELSE IF ~NoText(msg) /\ lower(strip(msg.text)) \in NoWords
    THEN Out([s EXCEPT !.step = PREVIEW], "preview")
    ELSE Out(s, "none")

ask_button_text(s, msg) ==
    IF NoText(msg)
    THEN Out(s, "reprompt_button_text")
    ELSE Out([s EXCEPT !.temp_button_text = strip(msg.text),
                       !.step = ASK_BUTTON_URL], "ask_button_url")

\* ask_button_url keeping the URL as it was typed
ask_button_url_raw(s, msg) ==
    IF NoText(msg) \/ ~is_http_url(msg.text)
    THEN Out(s, "reprompt_url")
    ELSE Out([s EXCEPT !.draft.buttons =
                           Append(@, ButtonDef(s.temp_button_text, msg.text)),
                       !.temp_button_text = NoneText,
                       !.step = ASK_ADD_BUTTON], "ask_add_button_again")

\* ask_button_url putting the new button first
ask_button_url_prepends(s, msg) ==
    IF NoText(msg) \/ ~is_http_url(msg.text)
    THEN Out(s, "reprompt_url")
    ELSE Out([s EXCEPT !.draft.buttons =
                           <<ButtonDef(s.temp_button_text, strip(msg.text))>> \o @,
                       !.temp_button_text = NoneText,
                       !.step = ASK_ADD_BUTTON], "ask_add_button_again")

ask_button_url(s, msg) ==
    IF NoText(msg) \/ ~is_http_url(msg.text)
    THEN Out(s, "reprompt_url")
    ELSE Out([s EXCEPT !.draft.buttons =
                           Append(@, ButtonDef(s.temp_button_text, strip(msg.text))),
                       !.temp_button_text = NoneText,
                       !.step = ASK_ADD_BUTTON], "ask_add_button_again")

add_link_title(s, msg) ==
    IF NoText(msg)
    THEN Out(s, "reprompt_link_title")
    ELSE Out([s EXCEPT !.temp_link_title = TRUE, !.step = ADD_LINK_URL], "ask_link_url")

add_link_url(s, msg) ==
    IF NoText(msg) \/ ~is_http_url(msg.text)
    THEN Out(s, "reprompt_url")
    ELSE Out([s EXCEPT !.temp_link_title = FALSE, !.step = IDLE], "link_added")

\* the admin flows of handle_message (lines 614-695), on the sender's session
message_flow(s, msg) ==
    CASE s.step = SET_WELCOME -> set_welcome(s, msg)
      [] s.step = ASK_TEXT -> ask_text(s, msg)
      [] s.step = ASK_MEDIA -> ask_media(s, msg)
      [] s.step = ASK_ADD_BUTTON -> ask_add_button(s, msg)
      [] s.step = ASK_BUTTON_TEXT -> ask_button_text(s, msg)
      [] s.step = ASK_BUTTON_URL -> ask_button_url(s, msg)
      [] s.step = ADD_LINK_TITLE -> add_link_title(s, msg)
      [] s.step = ADD_LINK_URL -> add_link_url(s, msg)
      [] OTHER -> Out(s, "none")

\* ------------------------------------------------------------------ program state
VARIABLES
    pool,       \* bot_data["pool"] is set (post_init has run)
    admins,     \* the rows of table admins
    sessions,   \* the dictionary sessions: uid -> Session
    pc,         \* where the handler of a preview_send callback stands:
                \* "idle" (none running), "fetch", "send", "sleep", "report"
    cur,        \* the uid whose preview_send callback is being handled
    draft,      \* do_broadcast's parameter draft
    targets,    \* do_broadcast's local targets
    idx,        \* position of the for loop in targets
    sent,       \* do_broadcast's local sent
    failed,     \* do_broadcast's local failed
    slept,      \* the argument of the asyncio.sleep being awaited, in ms
    attempts,   \* the transport calls of the running do_broadcast, in order
    calls,      \* how often the last update's handling entered do_broadcast
    replies,    \* what the last update's handling sent to its sender
    tally       \* the tally the last update's handling reported

vars == <<pool, admins, sessions, pc, cur, draft, targets, idx, sent, failed,
          slept, attempts, calls, replies, tally>>

dispatchVars == <<draft, targets, idx, sent, failed, slept, attempts>>

\* OWNER_ID of the environment, seeded into settings.owner_id
OwnerId == 1
\* the identities that send updates
UIDs == {OwnerId}
\* a second user, made an admin by the owner, and the two together
AdminId == OwnerId + 1
Operators == {OwnerId, AdminId}
\* the rows get_all_user_ids can return
Recipients == {101, 102, 103}

NoTally == [sent |-> -1, failed |-> -1]
NoUid == OwnerId - 1

\* is_admin(pool, uid)
is_admin(uid) == uid = OwnerId \/ uid \in admins

\* ------------------------------------------------------------------ the texts sent
T_EMPTY == <<>>
T_SKIP == <<" ","S","k","i","p"," ">>
T_URL == <<" ","H","T","T","P",":","/","/","<">>
T_NO == <<"N","o">>
T_BROADCAST == StrBroadcast
T_SETTING == CmdSetting

\* the texts of the dispatch runs, and those of the conversations
Texts == {T_EMPTY, T_SKIP, T_URL, T_BROADCAST, T_SETTING}
FlowTexts == Texts \cup {T_NO}

\* a command without a session effect, /broadcast with an argument, a word
\* no step knows, and the answers of ASK_ADD_BUTTON in several spellings
T_PING == <<"/","p","i","n","g">>
T_BROADCAST_ARG == StrBroadcast \o <<" ","x">>
T_WORD == <<"x">>
T_YA == <<"Y","a">>
T_YES == <<" ","Y","E","S">>
T_Y == <<"y">>
T_TIDAK == <<"T","i","d","a","k">>
T_N == <<"N"," ">>
CmdTexts == {T_EMPTY, T_SKIP, T_BROADCAST, T_BROADCAST_ARG, T_PING, T_WORD,
             T_YA, T_YES, T_Y, T_TIDAK, T_NO, T_N}

MediaMsgs == {PhotoMsg, VideoMsg, AnimationMsg, StickerMsg}
Msgs == {TextMsg(t) : t \in Texts} \cup MediaMsgs
FlowMsgs == {TextMsg(t) : t \in FlowTexts} \cup MediaMsgs
CmdMsgs == {TextMsg(t) : t \in CmdTexts} \cup {PhotoMsg, StickerMsg}
\* the messages that build a draft with buttons and those that leave the
\* conversation half-way
DraftMsgs == {TextMsg(T_BROADCAST), TextMsg(T_SETTING), TextMsg(T_URL),
              TextMsg(T_SKIP), PhotoMsg}
\* /admin_add, sent as a reply to a message of the user to add
T_ADMIN_ADD == <<"/","a","d","m","i","n","_","a","d","d">>
T_ADMIN_DEL == <<"/","a","d","m","i","n","_","d","e","l">>
\* the messages of two conversations side by side
MultiMsgs == {TextMsg(T_BROADCAST), TextMsg(T_WORD), PhotoMsg}
\* the buttons of the conversation's keyboards, but the confirm
MultiButtons == {"preview_restart", "preview_cancel", "btn_yes", "btn_no"}

CallbackData == {"link_add", "link_del:1", "preview_send", "preview_restart",
                 "preview_cancel", "btn_yes", "btn_no"}

Init ==
    /\ pool = FALSE
    /\ admins = {}
    /\ sessions = << >>
    /\ pc = "idle"
    /\ cur = NoUid
    /\ draft = BroadcastDraft
    /\ targets = <<>>
    /\ idx = 0
    /\ sent = 0
    /\ failed = 0
    /\ slept = 0
    /\ attempts = <<>>
    /\ calls = 0
    /\ replies = <<>>
    /\ tally = NoTally

\* post_init: the pool is created before polling starts
PostInit ==
    /\ ~pool
    /\ pool' = TRUE
    /\ UNCHANGED <<admins, sessions, pc, cur, dispatchVars, calls, replies, tally>>

\* ------------------------------------------------------------------ commands
Res(ss, out) == [ss |-> ss, replies |-> out]

\* the command a CommandHandler sees in a message text: the run of
\* [A-Za-z0-9_] after a leading "/", lower-cased; <<>> when there is none
CommandOf(text) ==
    IF text # NoneText /\ text # <<>> /\ Head(text) = "/"
    THEN lower(SubSeq(text, 2, 1 + LeadingNameLen(Tail(text))))
    ELSE <<>>

\* ensure_admin
ensure_admin(uid) == pool /\ is_admin(uid)

broadcast_cmd(ss, uid) ==
    IF ~ensure_admin(uid) THEN Res(ss, <<"admin_only">>)
    ELSE Res([ensure_session(ss, uid) EXCEPT ![uid].step = ASK_TEXT,
                                             ![uid].draft = BroadcastDraft],
             <<"ask_text">>)

ping_cmd(ss, uid) ==
    IF ~ensure_admin(uid) THEN Res(ss, <<"admin_only">>)
    ELSE Res(ss, <<"pong">>)

setting_cmd(ss, uid) ==
    IF ~ensure_admin(uid) THEN Res(ss, <<"admin_only">>)
    ELSE Res([ensure_session(ss, uid) EXCEPT ![uid].step = SET_WELCOME],
             <<"ask_welcome">>)

\* handle_message writing the sender's new session into every session
handle_message_all(ss, uid, msg) ==
    LET s0 == ensure_session(ss, uid)
        o == message_flow(s0[uid], msg)
    IN  IF ~pool \/ ~is_admin(uid) THEN Res(s0, <<>>)
        ELSE Res([u \in DOMAIN s0 |-> o.s],
                 IF o.reply = "none" THEN <<>> ELSE <<o.reply>>)

handle_message(ss, uid, msg) ==
    LET s0 == ensure_session(ss, uid)
        o == message_flow(s0[uid], msg)
    IN  IF ~pool \/ ~is_admin(uid) THEN Res(s0, <<>>)
        ELSE Res([s0 EXCEPT ![uid] = o.s],
                 IF o.reply = "none" THEN <<>> ELSE <<o.reply>>)

\* build_app: the command handlers of group 0, then handle_message in
\* group 1, both on the same update
process_message(ss, uid, msg) ==
    LET cmd == CommandOf(msg.text)
        g0 == IF cmd = Tail(StrBroadcast) THEN broadcast_cmd(ss, uid)
              ELSE IF cmd = Tail(CmdSetting) THEN setting_cmd(ss, uid)
              ELSE IF cmd = Tail(T_PING) THEN ping_cmd(ss, uid)
              ELSE Res(ss, <<>>)
        g1 == handle_message(g0.ss, uid, msg)
    IN  Res(g1.ss, g0.replies \o g1.replies)

\* Message handled while a do_broadcast is still running
Message_concurrent(uid, msg) ==
    /\ pool
    /\ LET r == process_message(sessions, uid, msg)
       IN  /\ Len(r.ss[uid].draft.buttons) <= MaxButtons
           /\ sessions' = r.ss
           /\ replies' = r.replies
    /\ calls' = 0
    /\ tally' = NoTally
    /\ UNCHANGED <<pool, admins, pc, cur, dispatchVars>>

\* one message update, handled to completion
Message(uid, msg) ==
    /\ pool
    /\ pc = "idle"
    /\ LET r == process_message(sessions, uid, msg)
       IN  /\ Len(r.ss[uid].draft.buttons) <= MaxButtons
           /\ sessions' = r.ss
           /\ replies' = r.replies
    /\ calls' = 0
    /\ tally' = NoTally
    /\ UNCHANGED <<pool, admins, pc, cur, dispatchVars>>

\* ensure_owner
ensure_owner(uid) == pool /\ uid = OwnerId

\* add_admin: the owner is an admin without a row; False when the insert fails
add_admin(ads, target, dbOk) ==
    IF target = OwnerId THEN [admins |-> ads, ok |-> TRUE]
    ELSE IF dbOk THEN [admins |-> ads \cup {target}, ok |-> TRUE]
    ELSE [admins |-> ads, ok |-> FALSE]

\* one /admin_add update, sent as a reply to a message of target: admin_add_cmd
\* in group 0, then handle_message in group 1
AdminAdd(uid, target) ==
    /\ pool
    /\ pc = "idle"
    /\ \E dbOk \in BOOLEAN :
         LET a == add_admin(admins, target, dbOk)
             g1 == handle_message(sessions, uid, TextMsg(T_ADMIN_ADD))
         IN  /\ Len(g1.ss[uid].draft.buttons) <= MaxButtons
             /\ admins' = IF ensure_owner(uid) THEN a.admins ELSE admins
             /\ sessions' = g1.ss
             /\ replies' = <<IF ~ensure_owner(uid) THEN "owner_only"
                             ELSE IF a.ok THEN "admin_added" ELSE "admin_add_failed">>
                           \o g1.replies
    /\ calls' = 0
    /\ tally' = NoTally
    /\ UNCHANGED <<pool, pc, cur, dispatchVars>>

\* del_admin: the owner has no row to delete; True when a row was deleted
del_admin(ads, target) ==
    IF target = OwnerId THEN [admins |-> ads, ok |-> FALSE]
    ELSE [admins |-> ads \ {target}, ok |-> target \in ads]

\* one /admin_del update, sent as a reply to a message of target: admin_del_cmd
\* in group 0 (the DELETE may raise, then it ends without a reply), then
\* handle_message in group 1
AdminDel(uid, target) ==
    /\ pool
    /\ pc = "idle"
    /\ \E dbOk \in BOOLEAN :
         LET d == del_admin(admins, target)
             g1 == handle_message(sessions, uid, TextMsg(T_ADMIN_DEL))
         IN  /\ Len(g1.ss[uid].draft.buttons) <= MaxButtons
             /\ admins' = IF ensure_owner(uid) /\ dbOk THEN d.admins ELSE admins
             /\ sessions' = g1.ss
             /\ replies' = (IF ~ensure_owner(uid) THEN <<"owner_only">>
                            ELSE IF ~dbOk THEN <<>>
                            ELSE IF d.ok THEN <<"admin_removed">>
                            ELSE <<"admin_del_failed">>)
                           \o g1.replies
    /\ calls' = 0
    /\ tally' = NoTally
    /\ UNCHANGED <<pool, pc, cur, dispatchVars>>

\* ------------------------------------------------------------------ callbacks
\* cb_flow with a restart that empties the text only
cb_flow_restart_keeps(s, data, isadm) ==
    IF data = "link_add"
    THEN IF ~isadm THEN Out(s, "alert_admin_only")
         ELSE Out([s EXCEPT !.step = ADD_LINK_TITLE], "ask_link_title")
    ELSE IF data = "link_del:1"
    THEN IF ~isadm THEN Out(s, "alert_admin_only") ELSE Out(s, "link_list")
    ELSE IF s.step = PREVIEW /\ data = "preview_restart"
    THEN Out([s EXCEPT !.step = ASK_TEXT, !.draft.text = <<>>], "ask_text")
    ELSE IF s.step = PREVIEW /\ data = "preview_cancel"
    THEN Out([s EXCEPT !.step = IDLE, !.draft = BroadcastDraft], "cancelled")
    ELSE IF s.step = ASK_ADD_BUTTON /\ data = "btn_yes"
    THEN Out([s EXCEPT !.step = ASK_BUTTON_TEXT], "ask_button_text")
    ELSE IF s.step = ASK_ADD_BUTTON /\ data = "btn_no"
    THEN Out([s EXCEPT !.step = PREVIEW], "preview")
    ELSE Out(s, "none")

\* cb_flow with a cancel that leaves the draft in the session
cb_flow_keeps_draft(s, data, isadm) ==
    IF data = "link_add"
    THEN IF ~isadm THEN Out(s, "alert_admin_only")
         ELSE Out([s EXCEPT !.step = ADD_LINK_TITLE], "ask_link_title")
    ELSE IF data = "link_del:1"
    THEN IF ~isadm THEN Out(s, "alert_admin_only") ELSE Out(s, "link_list")
    ELSE IF s.step = PREVIEW /\ data = "preview_restart"
    THEN Out([s EXCEPT !.step = ASK_TEXT, !.draft = BroadcastDraft], "ask_text")
    ELSE IF s.step = PREVIEW /\ data = "preview_cancel"
    THEN Out([s EXCEPT !.step = IDLE], "cancelled")
    ELSE IF s.step = ASK_ADD_BUTTON /\ data = "btn_yes"
    THEN Out([s EXCEPT !.step = ASK_BUTTON_TEXT], "ask_button_text")
    ELSE IF s.step = ASK_ADD_BUTTON /\ data = "btn_no"
    THEN Out([s EXCEPT !.step = PREVIEW], "preview")
    ELSE Out(s, "none")

\* cb_handler after query.answer() and the pool test, for every case but
\* preview_send in step PREVIEW (lines 713-762)
cb_flow(s, data, isadm) ==
    IF data = "link_add"
    THEN IF ~isadm THEN Out(s, "alert_admin_only")
         ELSE Out([s EXCEPT !.step = ADD_LINK_TITLE], "ask_link_title")
    ELSE IF data = "link_del:1"
    THEN IF ~isadm THEN Out(s, "alert_admin_only") ELSE Out(s, "link_list")
    ELSE IF s.step = PREVIEW /\ data = "preview_restart"
    THEN Out([s EXCEPT !.step = ASK_TEXT, !.draft = BroadcastDraft], "ask_text")
    ELSE IF s.step = PREVIEW /\ data = "preview_cancel"
    THEN Out([s EXCEPT !.step = IDLE, !.draft = BroadcastDraft], "cancelled")
    ELSE IF s.step = ASK_ADD_BUTTON /\ data = "btn_yes"
    THEN Out([s EXCEPT !.step = ASK_BUTTON_TEXT], "ask_button_text")
    ELSE IF s.step = ASK_ADD_BUTTON /\ data = "btn_no"
    THEN Out([s EXCEPT !.step = PREVIEW], "preview")
    ELSE Out(s, "none")

cb_handler(ss, uid, data) ==
    LET s0 == ensure_session(ss, uid)
        o == cb_flow(s0[uid], data, is_admin(uid))
    IN  IF ~pool THEN Res(ss, <<"not_ready">>)
        ELSE Res([s0 EXCEPT ![uid] = o.s],
                 IF o.reply = "none" THEN <<>> ELSE <<o.reply>>)

\* one callback update, handled to completion
Callback(uid, data) ==
    /\ pool
    /\ pc = "idle"
    /\ ~(data = "preview_send" /\ ensure_session(sessions, uid)[uid].step = PREVIEW)
    /\ LET r == cb_handler(sessions, uid, data)
       IN  /\ sessions' = r.ss
           /\ replies' = r.replies
    /\ calls' = 0
    /\ tally' = NoTally
    /\ UNCHANGED <<pool, admins, pc, cur, dispatchVars>>

\* ------------------------------------------------------------------ do_broadcast
\* asyncio.sleep after a delivery (line 784) and after a failure (line 788), ms
SuccessDelay == 50
FailDelay == 300

\* get_all_user_ids: user_id is the primary key of users, the rows come in
\* no stated order
TargetLists ==
    { t \in UNION { [1..n -> Recipients] : n \in 0..Cardinality(Recipients) } :
        \A i, j \in DOMAIN t : t[i] = t[j] => i = j }
\* the lists of an empty and of a one-row table
ShortLists == { t \in TargetLists : \A i \in DOMAIN t : i = Len(t) /\ i = Cardinality({t[i]}) }

\* line 771: one row per button
keyboard(d) == [i \in 1..Len(d.buttons) |-> <<d.buttons[i]>>]

\* transport_call sending a video without the keyboard
transport_call_bare_video(d, chat_id) ==
    IF d.photo_file_id # None
    THEN [method |-> "send_photo", chat_id |-> chat_id, media |-> d.photo_file_id,
          text |-> d.text, reply_markup |-> keyboard(d)]
    ELSE IF d.video_file_id # None
    THEN [method |-> "send_video", chat_id |-> chat_id, media |-> d.video_file_id,
          text |-> d.text, reply_markup |-> <<>>]
    ELSE IF d.animation_file_id # None
    THEN [method |-> "send_animation", chat_id |-> chat_id, media |-> d.animation_file_id,
          text |-> d.text, reply_markup |-> keyboard(d)]
    ELSE [method |-> "send_message", chat_id |-> chat_id, media |-> None,
          text |-> d.text, reply_markup |-> keyboard(d)]

\* lines 775-782: the transport call for one chat
transport_call(d, chat_id) ==
    IF d.photo_file_id # None
    THEN [method |-> "send_photo", chat_id |-> chat_id, media |-> d.photo_file_id,
          text |-> d.text, reply_markup |-> keyboard(d)]
    ELSE IF d.video_file_id # None
    THEN [method |-> "send_video", chat_id |-> chat_id, media |-> d.video_file_id,
          text |-> d.text, reply_markup |-> keyboard(d)]
    ELSE IF d.animation_file_id # None
    THEN [method |-> "send_animation", chat_id |-> chat_id, media |-> d.animation_file_id,
          text |-> d.text, reply_markup |-> keyboard(d)]
    ELSE [method |-> "send_message", chat_id |-> chat_id, media |-> None,
          text |-> d.text, reply_markup |-> keyboard(d)]

\* count with failures left out of the tally
count_lost(s, f, ok) == IF ok THEN [sent |-> s + 1, failed |-> f]
                        ELSE [sent |-> s, failed |-> f]

\* count with the two counters mixed up
count_swapped(s, f, ok) == IF ok THEN [sent |-> s, failed |-> f + 1]
                           ELSE [sent |-> s + 1, failed |-> f]

\* lines 783 and 786: the counters after one transport call
count(s, f, ok) == IF ok THEN [sent |-> s + 1, failed |-> f]
                   ELSE [sent |-> s, failed |-> f + 1]

\* delay with the short pause after a failure as well
delay_flat(ok) == SuccessDelay

\* lines 784 and 788
delay(ok) == IF ok THEN SuccessDelay ELSE FailDelay

\* current_target walking the list from its end
current_target_reversed(t, i) == t[Len(t) + 1 - i]

\* the for loop of line 773: the chat served at position i of t
current_target(t, i) == t[i]

\* the for loop of line 773: where it goes after position i of t
after_position(i, t) == IF i + 1 > Len(t) THEN "report" ELSE "send"

\* lines 739-742: preview_send in step PREVIEW; edit_message_text may raise,
\* then the handler ends there
Confirm(uid) ==
    /\ pool
    /\ pc = "idle"
    /\ uid \in DOMAIN sessions
    /\ sessions[uid].step = PREVIEW
    /\ \E editOk \in BOOLEAN :
        /\ pc' = IF editOk THEN "fetch" ELSE "idle"
        /\ cur' = IF editOk THEN uid ELSE NoUid
        /\ draft' = IF editOk THEN sessions[uid].draft ELSE BroadcastDraft
        /\ calls' = IF editOk THEN 1 ELSE 0
        /\ replies' = IF editOk THEN <<"start_broadcast">> ELSE <<>>
    /\ tally' = NoTally
    /\ UNCHANGED <<pool, admins, sessions, targets, idx, sent, failed, slept, attempts>>

\* line 768 returns the rows, one list of L
FetchTargets(L) ==
    /\ pc = "fetch"
    /\ \E t \in L :
        /\ targets' = t
        /\ pc' = after_position(0, t)
    /\ idx' = 1
    /\ sent' = 0
    /\ failed' = 0
    /\ attempts' = <<>>
    /\ UNCHANGED <<pool, admins, sessions, cur, draft, slept, calls, replies, tally>>

\* the handler is left by an exception: lines 743-744 do not run
Abandon ==
    /\ pc' = "idle"
    /\ cur' = NoUid
    /\ draft' = BroadcastDraft
    /\ targets' = <<>>
    /\ idx' = 0
    /\ sent' = 0
    /\ failed' = 0
    /\ slept' = 0
    /\ attempts' = <<>>
    /\ UNCHANGED <<pool, admins, sessions, calls, replies, tally>>

\* line 768 raises (the database is unreachable)
FetchRaises ==
    /\ pc = "fetch"
    /\ Abandon

\* Send with the loop left at the first failure
Send_stops ==
    /\ pc = "send"
    /\ \E ok \in BOOLEAN :
        /\ attempts' = Append(attempts,
               [to |-> current_target(targets, idx), ok |-> ok,
                call |-> transport_call(draft, current_target(targets, idx))])
        /\ sent' = count(sent, failed, ok).sent
        /\ failed' = count(sent, failed, ok).failed
        /\ slept' = delay(ok)
        /\ pc' = IF ok THEN "sleep" ELSE "report"
    /\ UNCHANGED <<pool, admins, sessions, cur, draft, targets, idx, calls, replies, tally>>

\* lines 774-788 up to the sleep: one transport call and its outcome
Send ==
    /\ pc = "send"
    /\ \E ok \in BOOLEAN :
        /\ attempts' = Append(attempts,
               [to |-> current_target(targets, idx), ok |-> ok,
                call |-> transport_call(draft, current_target(targets, idx))])
        /\ sent' = count(sent, failed, ok).sent
        /\ failed' = count(sent, failed, ok).failed
        /\ slept' = delay(ok)
    /\ pc' = "sleep"
    /\ UNCHANGED <<pool, admins, sessions, cur, draft, targets, idx, calls, replies, tally>>

\* the sleep of line 784 or 788 ends; the loop goes on
Sleep ==
    /\ pc = "sleep"
    /\ slept' = 0
    /\ idx' = idx + 1
    /\ pc' = after_position(idx, targets)
    /\ UNCHANGED <<pool, admins, sessions, cur, draft, targets, sent, failed, attempts,
                   calls, replies, tally>>

\* line 790 sends the tally, do_broadcast returns, lines 743-744 reset the session
Report ==
    /\ pc = "report"
    /\ tally' = [sent |-> sent, failed |-> failed]
    /\ replies' = Append(replies, "tally")
    /\ sessions' = [sessions EXCEPT ![cur].step = IDLE, ![cur].draft = BroadcastDraft]
    /\ pc' = "idle"
    /\ cur' = NoUid
    /\ draft' = BroadcastDraft
    /\ targets' = <<>>
    /\ idx' = 0
    /\ sent' = 0
    /\ failed' = 0
    /\ slept' = 0
    /\ attempts' = <<>>
    /\ UNCHANGED <<pool, admins, calls>>

\* line 790 raises
ReportRaises ==
    /\ pc = "report"
    /\ Abandon

\* the updates and outcomes common to both specifications
Dispatch ==
    \/ FetchRaises
    \/ Send
    \/ Sleep
    \/ Report
    \/ ReportRaises

\* dispatch runs over every list of the users table, short conversations
Next ==
    \/ PostInit
    \/ \E uid \in UIDs, msg \in Msgs : Message(uid, msg)
    \/ \E uid \in UIDs, data \in CallbackData : Callback(uid, data)
    \/ \E uid \in UIDs : Confirm(uid)
    \/ FetchTargets(TargetLists)
    \/ Dispatch

Spec == Init /\ [][Next]_vars

\* Spec with the event loop resuming do_broadcast whenever what it awaits
\* (the rows, a transport call, a sleep, the tally reply) has come back
SpecLive ==
    /\ Init /\ [][Next]_vars
    /\ WF_vars(FetchTargets(TargetLists))
    /\ WF_vars(Send)
    /\ WF_vars(Sleep)
    /\ WF_vars(Report)

\* every conversation input, dispatch runs over at most one user
NextFlow ==
    \/ PostInit
    \/ \E uid \in UIDs, msg \in FlowMsgs : Message(uid, msg)
    \/ \E uid \in UIDs, data \in CallbackData : Callback(uid, data)
    \/ \E uid \in UIDs : Confirm(uid)
    \/ FetchTargets(ShortLists)
    \/ Dispatch

SpecFlow == Init /\ [][NextFlow]_vars

\* commands inside a conversation and the spellings of its answers, dispatch
\* runs over at most one user
NextCmd ==
    \/ PostInit
    \/ \E uid \in UIDs, msg \in CmdMsgs : Message(uid, msg)
    \/ \E uid \in UIDs, data \in CallbackData : Callback(uid, data)
    \/ \E uid \in UIDs : Confirm(uid)
    \/ FetchTargets(ShortLists)
    \/ Dispatch

SpecCmd == Init /\ [][NextCmd]_vars

\* drafts with buttons, and the ways out of a conversation
NextDraft ==
    \/ PostInit
    \/ \E uid \in UIDs, msg \in DraftMsgs : Message(uid, msg)
    \/ \E uid \in UIDs, data \in CallbackData : Callback(uid, data)
    \/ \E uid \in UIDs : Confirm(uid)
    \/ FetchTargets(ShortLists)
    \/ Dispatch

SpecDraft == Init /\ [][NextDraft]_vars

\* two operators, each in a conversation of their own
NextMulti ==
    \/ PostInit
    \/ \E uid \in Operators, target \in Operators : AdminAdd(uid, target)
    \/ \E uid \in Operators, msg \in MultiMsgs : Message(uid, msg)
    \/ \E uid \in Operators, data \in MultiButtons : Callback(uid, data)
    \/ \E uid \in Operators : Confirm(uid)
    \/ FetchTargets(ShortLists)
    \/ Dispatch

SpecMulti == Init /\ [][NextMulti]_vars

\* two operators, the owner granting and withdrawing the admin right of the
\* other
NextRevoke ==
    \/ PostInit
    \/ \E uid \in Operators, target \in Operators : AdminAdd(uid, target)
    \/ \E uid \in Operators, target \in Operators : AdminDel(uid, target)
    \/ \E uid \in Operators, msg \in MultiMsgs : Message(uid, msg)
    \/ \E uid \in Operators, data \in MultiButtons : Callback(uid, data)
    \/ \E uid \in Operators : Confirm(uid)
    \/ FetchTargets(ShortLists)
    \/ Dispatch

SpecRevoke == Init /\ [][NextRevoke]_vars

\* ------------------------------------------------------------------ properties
\* the chats of a sequence of transport calls, in order
Tos(a) == [i \in 1..Len(a) |-> a[i].to]
\* how many calls of a ended with outcome ok
Outcomes(a, ok) == Cardinality({i \in 1..Len(a) : a[i].ok = ok})
InLoop == pc \in {"send", "sleep"}

\* C1: when the loop of do_broadcast has ended, sent + failed is the length
\* of the recipient list, whatever calls succeeded or failed; for the empty
\* list both counters are 0.
C1_TallyTotal ==
    pc = "report" =>
        /\ sent + failed = Len(targets)
        /\ targets = <<>> => sent = 0 /\ failed = 0

C1_Witness ==
    pc = "report" /\ Len(targets) = Cardinality(Recipients) /\ sent > 0 /\ failed > 0

\* C2: sent is the number of calls that succeeded and failed the number of
\* calls that raised, all through the run, and the tally reported at its end
\* is these two numbers.
C2_TallyExact ==
    [][ /\ pc' # "idle" /\ pc' # "fetch" =>
             /\ sent' = Outcomes(attempts', TRUE)
             /\ failed' = Outcomes(attempts', FALSE)
        /\ pc = "report" /\ tally' # NoTally =>
             tally' = [sent |-> Outcomes(attempts, TRUE),
                       failed |-> Outcomes(attempts, FALSE)] ]_vars

\* three recipients, the second fails: sent 2, failed 1
C2_Witness ==
    /\ pc = "report"
    /\ [i \in 1..Len(attempts) |-> attempts[i].ok] = <<TRUE, FALSE, TRUE>>
    /\ sent = Cardinality(Recipients) - 1
    /\ failed = 1

\* C3: a failure ends neither the loop nor the handler: from inside the
\* loop the run goes on to the next call or to the report, what was
\* attempted stays attempted, no chat is called twice, and at the report
\* every chat of the list has had its one call.
C3_NoAbort ==
    [][ /\ InLoop => pc' \in {"send", "sleep", "report"}
        /\ InLoop => Len(attempts') >= Len(attempts)
                     /\ SubSeq(attempts', 1, Len(attempts)) = attempts
        /\ \A i, j \in 1..Len(attempts') :
               attempts'[i].to = attempts'[j].to => i = j
        /\ pc' = "report" =>
               \A r \in Recipients :
                   Cardinality({i \in 1..Len(attempts') : attempts'[i].to = r})
                       = Cardinality({i \in 1..Len(targets') : targets'[i] = r}) ]_vars

\* the first call failed and the two chats after it were still called
C3_Witness ==
    /\ pc = "report"
    /\ Len(attempts) = Cardinality(Recipients)
    /\ ~attempts[1].ok
    /\ attempts[Len(attempts)].ok

\* C4: the calls made so far are the first chats of the list, in the
\* order of the list, and the loop stands right behind them.
C4_InOrder ==
    pc \in {"send", "sleep", "report"} =>
        /\ Len(attempts) <= Len(targets)
        /\ Tos(attempts) = SubSeq(targets, 1, Len(attempts))
        /\ pc = "send" => idx = Len(attempts) + 1
        /\ pc = "sleep" => idx = Len(attempts)
        /\ pc = "report" => Len(attempts) = Len(targets)

\* a list that is not in ascending order, served as it came
C4_Witness ==
    /\ pc = "report"
    /\ Len(targets) = Cardinality(Recipients)
    /\ targets[1] > targets[Len(targets)]
    /\ Tos(attempts) = targets

\* a message that is not one of the commands with a session effect
PlainInput(msg) == CommandOf(msg.text) \notin {Tail(StrBroadcast), Tail(CmdSetting)}
HasAttachment(msg) == msg.photo # <<>> \/ msg.video # None \/ msg.animation # None
HttpPrefix(x) ==
    \/ startswith(x, <<"h","t","t","p",":","/","/">>)
    \/ startswith(x, <<"h","t","t","p","s",":","/","/">>)
MediaCount(d) ==
    Cardinality({f \in {"photo", "video", "animation"} :
        \/ f = "photo" /\ d.photo_file_id # None
        \/ f = "video" /\ d.video_file_id # None
        \/ f = "animation" /\ d.animation_file_id # None})

\* C5: once the handler of a confirm has entered do_broadcast, it was handed
\* the session's draft, and when that handler ends the session is in IDLE
\* with an empty draft, whatever the directory lookup, the transport calls
\* and the tally report did.
C5_ConfirmEndsIdle ==
    [][ \A uid \in UIDs :
          /\ uid \in DOMAIN sessions /\ Confirm(uid) /\ pc' = "fetch" =>
                 calls' = 1 /\ draft' = sessions[uid].draft
          /\ cur = uid /\ pc # "idle" /\ pc' = "idle" =>
                 /\ sessions'[uid].step = IDLE
                 /\ sessions'[uid].draft = BroadcastDraft ]_vars

\* the parts of C6 after the text: the attachment, the negative answer and
\* the confirm leave in the draft what was supplied, and nothing else
C6_AfterText ==
    \A uid \in UIDs : uid \in DOMAIN sessions =>
        /\ \A msg \in FlowMsgs :
               sessions[uid].step = ASK_MEDIA /\ sessions'[uid].step = ASK_ADD_BUTTON
                   /\ Message(uid, msg) =>
               sessions'[uid].draft =
                   [sessions[uid].draft EXCEPT
                       !.photo_file_id = IF msg.photo # <<>>
                                         THEN msg.photo[Len(msg.photo)] ELSE None,
                       !.video_file_id = msg.video,
                       !.animation_file_id = msg.animation]
        /\ sessions[uid].step = ASK_ADD_BUTTON /\ sessions'[uid].step = PREVIEW =>
               sessions'[uid].draft = sessions[uid].draft
        /\ Confirm(uid) /\ pc' = "fetch" => draft' = sessions[uid].draft

\* C6 as claimed: the text accepted in ASK_TEXT is the draft's text,
\* character for character.
C6_DraftAsSupplied ==
    [][ /\ C6_AfterText
        /\ \A uid \in UIDs, msg \in FlowMsgs :
               uid \in DOMAIN sessions /\ sessions[uid].step = ASK_TEXT
                   /\ sessions'[uid].step = ASK_MEDIA /\ Message(uid, msg) =>
               sessions'[uid].draft = [BroadcastDraft EXCEPT !.text = msg.text] ]_vars

\* C6 as amended: the draft's text is the HTML form of the text accepted in
\* ASK_TEXT (its &, < and > escaped), the attachment is the one supplied
\* (for a photo its last size), and the button list is empty.
C6_DraftAsRendered ==
    [][ /\ C6_AfterText
        /\ \A uid \in UIDs, msg \in FlowMsgs :
               uid \in DOMAIN sessions /\ sessions[uid].step = ASK_TEXT
                   /\ sessions'[uid].step = ASK_MEDIA /\ Message(uid, msg) =>
               sessions'[uid].draft = [BroadcastDraft EXCEPT !.text = escape(msg.text)] ]_vars

\* do_broadcast entered with a text that had to be escaped, a video and no button
C6_Witness ==
    /\ pc = "fetch"
    /\ draft = [BroadcastDraft EXCEPT !.text = escape(T_URL),
                                      !.video_file_id = VideoMsg.video]
    /\ draft.text # T_URL

\* C7 as claimed: the label and the URL are kept as they were typed.
C7_AsSubmitted ==
    [][ \A uid \in UIDs, msg \in FlowMsgs :
          uid \in DOMAIN sessions
              /\ sessions[uid].step \in {ASK_BUTTON_TEXT, ASK_BUTTON_URL}
              /\ Message(uid, msg) =>
            /\ sessions[uid].step = ASK_BUTTON_TEXT
                   /\ sessions'[uid].step = ASK_BUTTON_URL =>
                 /\ sessions'[uid].temp_button_text = msg.text
                 /\ sessions'[uid].draft = sessions[uid].draft
            /\ sessions[uid].step = ASK_BUTTON_URL
                   /\ sessions'[uid].step = ASK_ADD_BUTTON =>
                 /\ sessions'[uid].draft =
                        [sessions[uid].draft EXCEPT !.buttons =
                            Append(@, ButtonDef(sessions[uid].temp_button_text, msg.text))]
                 /\ sessions'[uid].temp_button_text = NoneText ]_vars

\* C7 as amended: a label and then a valid URL append one button, the
\* label and the URL both without their surrounding whitespace, behind the
\* buttons already there; the pending label is cleared and the step is
\* ASK_ADD_BUTTON again.
C7_RoundTrip ==
    [][ \A uid \in UIDs, msg \in FlowMsgs :
          uid \in DOMAIN sessions
              /\ sessions[uid].step \in {ASK_BUTTON_TEXT, ASK_BUTTON_URL}
              /\ Message(uid, msg) =>
            /\ sessions[uid].step = ASK_BUTTON_TEXT
                   /\ sessions'[uid].step = ASK_BUTTON_URL =>
                 /\ sessions'[uid].temp_button_text = strip(msg.text)
                 /\ sessions'[uid].draft = sessions[uid].draft
            /\ sessions[uid].step = ASK_BUTTON_URL
                   /\ sessions'[uid].step = ASK_ADD_BUTTON =>
                 /\ sessions'[uid].draft =
                        [sessions[uid].draft EXCEPT !.buttons =
                            Append(@, ButtonDef(sessions[uid].temp_button_text,
                                                strip(msg.text)))]
                 /\ sessions'[uid].temp_button_text = NoneText ]_vars

\* two cycles done: two buttons, in the order their labels were sent
C7_Witness ==
    /\ OwnerId \in DOMAIN sessions
    /\ sessions[OwnerId].step = ASK_ADD_BUTTON
    /\ sessions[OwnerId].temp_button_text = NoneText
    /\ sessions[OwnerId].draft.buttons =
           <<ButtonDef(strip(T_SKIP), strip(T_URL)), ButtonDef(T_NO, strip(T_URL))>>
    /\ replies = <<"ask_add_button_again">>

\* the texts the specification names, with the verdict of line 674
UrlSamples ==
    { [text |-> <<"h","t","t","p","s",":","/","/","e","x","a","m","p","l","e",".","c","o","m">>,
       ok |-> TRUE],
      [text |-> <<"h","t","t","p",":","/","/">>, ok |-> TRUE],
      [text |-> <<"H","t","t","P","s",":","/","/","x">>, ok |-> TRUE],
      [text |-> <<"f","t","p",":","/","/","x">>, ok |-> FALSE],
      [text |-> <<"e","x","a","m","p","l","e",".","c","o","m">>, ok |-> FALSE],
      [text |-> <<"x"," ","h","t","t","p",":","/","/">>, ok |-> FALSE],
      [text |-> <<>>, ok |-> FALSE] }

\* what ASK_BUTTON_URL does with a message, given whether it counts as a URL
UrlStep(uid, msg, accepted) ==
    IF accepted
    THEN /\ sessions'[uid].step = ASK_ADD_BUTTON
         /\ Len(sessions'[uid].draft.buttons) = Len(sessions[uid].draft.buttons) + 1
    ELSE sessions'[uid] = sessions[uid]

\* C8 as claimed: a text is accepted exactly when the text itself starts,
\* in any letter case, with http:// or https://.
C8_PrefixOfText ==
    [][ \A uid \in UIDs, msg \in FlowMsgs :
          uid \in DOMAIN sessions /\ sessions[uid].step = ASK_BUTTON_URL
              /\ PlainInput(msg) /\ Message(uid, msg) =>
          UrlStep(uid, msg, ~NoText(msg) /\ HttpPrefix(lower(msg.text))) ]_vars

\* C8 as amended: a text is accepted exactly when, with its surrounding
\* whitespace removed, it starts in any letter case with http:// or
\* https://; anything else, a message without text included, leaves the
\* session as it was.
C8_UrlAcceptance ==
    [][ /\ \A u \in UrlSamples : is_http_url(u.text) = u.ok
        /\ \A uid \in UIDs, msg \in FlowMsgs :
             uid \in DOMAIN sessions /\ sessions[uid].step = ASK_BUTTON_URL
                 /\ PlainInput(msg) /\ Message(uid, msg) =>
             UrlStep(uid, msg, ~NoText(msg) /\ HttpPrefix(lower(strip(msg.text)))) ]_vars

\* a rejected URL: the step and the pending label are still there
C8_Witness ==
    /\ OwnerId \in DOMAIN sessions
    /\ sessions[OwnerId].step = ASK_BUTTON_URL
    /\ sessions[OwnerId].temp_button_text = strip(T_SKIP)
    /\ Len(sessions[OwnerId].draft.buttons) = 1
    /\ replies = <<"reprompt_url">>

\* C9: no draft ever holds two attachments, and an attachment accepted in
\* ASK_MEDIA is the only one of the draft, in the field of its kind.
C9_MediaExclusive ==
    [][ /\ \A uid \in DOMAIN sessions' : MediaCount(sessions'[uid].draft) <= 1
        /\ MediaCount(draft') <= 1
        /\ \A uid \in UIDs, msg \in FlowMsgs :
             uid \in DOMAIN sessions /\ sessions[uid].step = ASK_MEDIA
                 /\ HasAttachment(msg) /\ Message(uid, msg) =>
             /\ sessions'[uid].step = ASK_ADD_BUTTON
             /\ MediaCount(sessions'[uid].draft) = 1
             /\ msg.photo # <<>> => sessions'[uid].draft.photo_file_id =
                                        msg.photo[Len(msg.photo)]
             /\ msg.video # None => sessions'[uid].draft.video_file_id = msg.video
             /\ msg.animation # None =>
                    sessions'[uid].draft.animation_file_id = msg.animation ]_vars

\* a video was accepted
C9_Witness ==
    /\ OwnerId \in DOMAIN sessions
    /\ sessions[OwnerId].step = ASK_ADD_BUTTON
    /\ sessions[OwnerId].draft.video_file_id = VideoMsg.video
    /\ sessions[OwnerId].draft.photo_file_id = None
    /\ sessions[OwnerId].draft.animation_file_id = None
    /\ replies = <<"ask_add_button">>

\* C10: preview_cancel in PREVIEW leaves the session in IDLE with an empty
\* draft, whatever the draft was, and starts no dispatch run.
C10_CancelResets ==
    [][ \A uid \in UIDs :
          uid \in DOMAIN sessions /\ sessions[uid].step = PREVIEW
              /\ Callback(uid, "preview_cancel") =>
          /\ sessions'[uid].step = IDLE
          /\ sessions'[uid].draft = BroadcastDraft
          /\ pc' = "idle"
          /\ calls' = 0
          /\ attempts' = <<>> ]_vars

\* a cancel was handled
C10_Witness ==
    /\ OwnerId \in DOMAIN sessions
    /\ sessions[OwnerId].step = IDLE
    /\ sessions[OwnerId].draft = BroadcastDraft
    /\ replies = <<"cancelled">>
    /\ pc = "idle"
    /\ calls = 0

\* C11: preview_restart in PREVIEW leaves the session in ASK_TEXT with an
\* empty draft and starts no dispatch run; a session in ASK_TEXT never holds
\* anything of an earlier draft.
C11_RestartResets ==
    [][ /\ \A uid \in DOMAIN sessions' :
             sessions'[uid].step = ASK_TEXT => sessions'[uid].draft = BroadcastDraft
        /\ \A uid \in UIDs :
             uid \in DOMAIN sessions /\ sessions[uid].step = PREVIEW
                 /\ Callback(uid, "preview_restart") =>
             /\ sessions'[uid].step = ASK_TEXT
             /\ sessions'[uid].draft = BroadcastDraft
             /\ pc' = "idle"
             /\ calls' = 0
             /\ attempts' = <<>> ]_vars

\* a restart was handled
C11_Witness ==
    /\ OwnerId \in DOMAIN sessions
    /\ sessions[OwnerId].step = ASK_TEXT
    /\ sessions[OwnerId].draft = BroadcastDraft
    /\ replies = <<"ask_text">>
    /\ pc = "idle"
    /\ calls = 0

\* C12: when a message carrying the /broadcast command of an admin has
\* been handled by broadcast_cmd and by handle_message, the session is in
\* ASK_TEXT with an empty draft.
C12_BroadcastStartsFresh ==
    [][ \A uid \in UIDs, msg \in CmdMsgs :
          CommandOf(msg.text) = Tail(StrBroadcast) /\ is_admin(uid)
              /\ Message(uid, msg) =>
          /\ sessions'[uid].step = ASK_TEXT
          /\ sessions'[uid].draft = BroadcastDraft ]_vars

\* a text that is one command token and nothing else
BareCommand(text) ==
    /\ CommandOf(text) # <<>>
    /\ Len(text) = 1 + Len(CommandOf(text))

\* C13: in ASK_TEXT a bare command token leaves the step and draft.text as
\* they were; any other non-empty text is stored (in its HTML form) as
\* draft.text and the step becomes ASK_MEDIA.
C13_CommandsRejected ==
    [][ \A uid \in UIDs, msg \in CmdMsgs :
          uid \in DOMAIN sessions /\ sessions[uid].step = ASK_TEXT
              /\ Message(uid, msg) =>
          IF NoText(msg) \/ BareCommand(msg.text)
          THEN /\ sessions'[uid].step = ASK_TEXT
               /\ sessions'[uid].draft.text = sessions[uid].draft.text
          ELSE /\ CommandOf(msg.text) = <<>> =>
                     /\ sessions'[uid].step = ASK_MEDIA
                     /\ sessions'[uid].draft.text = escape(msg.text) ]_vars

\* the inputs a step of the conversation refuses
InvalidInput(step, msg) ==
    \/ step = ASK_TEXT /\ NoText(msg)
    \/ step = ASK_MEDIA /\ ~HasAttachment(msg)
           /\ (NoText(msg) \/ lower(strip(msg.text)) # StrSkip)
    \/ step = ASK_ADD_BUTTON
           /\ (NoText(msg) \/ lower(strip(msg.text)) \notin (YesWords \cup NoWords))
    \/ step = ASK_BUTTON_TEXT /\ NoText(msg)
    \/ step = ASK_BUTTON_URL
           /\ (NoText(msg) \/ ~HttpPrefix(lower(strip(msg.text))))

\* C14: a message that its step refuses (and that is not one of the commands
\* /broadcast and /setting) leaves the session exactly as it was: step, draft
\* and pending label; so after any number of them the session is the one a
\* valid input started from.
C14_InvalidKeepsState ==
    [][ \A uid \in UIDs, msg \in FlowMsgs :
          uid \in DOMAIN sessions /\ InvalidInput(sessions[uid].step, msg)
              /\ PlainInput(msg) /\ Message(uid, msg) =>
          sessions'[uid] = sessions[uid] ]_vars

\* an input ASK_MEDIA does not know was refused, the text is still there
C14_Witness ==
    /\ OwnerId \in DOMAIN sessions
    /\ sessions[OwnerId].step = ASK_MEDIA
    /\ sessions[OwnerId].draft = [BroadcastDraft EXCEPT !.text = escape(T_URL)]
    /\ replies = <<"reprompt_media">>

\* the steps of the broadcast conversation
FlowSteps == {ASK_TEXT, ASK_MEDIA, ASK_ADD_BUTTON, ASK_BUTTON_TEXT, ASK_BUTTON_URL,
              PREVIEW}
\* the callback data of the conversation's keyboards
FlowButtons == {"preview_restart", "preview_cancel", "btn_yes", "btn_no"}

\* C15: a message or a button press that takes no transition of the
\* session's step of the conversation (the session is as before) is answered
\* with a message to the operator.
C15_AlwaysReprompted ==
    [][ \A uid \in UIDs :
          /\ uid \in DOMAIN sessions
          /\ sessions[uid].step \in FlowSteps
          /\ sessions'[uid] = sessions[uid]
          /\ \/ \E msg \in CmdMsgs : Message(uid, msg)
             \/ \E data \in FlowButtons : Callback(uid, data)
          => replies' # <<>> ]_vars

\* a word in every mix of capital and small letters
Spellings(w) ==
    { [i \in 1..Len(w) |->
          IF i \in S THEN UpperLetters[CHOOSE k \in 1..26 : LowerLetters[k] = w[i]]
          ELSE w[i]] : S \in SUBSET (1..Len(w)) }

\* what the button and each spelling of its words do to a session in
\* ASK_ADD_BUTTON: all the same
SameAnswer(s, words, data, step) ==
    /\ cb_flow(s, data, TRUE).s = [s EXCEPT !.step = step]
    /\ \A w \in words : \A v \in Spellings(w) :
           /\ ask_add_button(s, TextMsg(v)).s = cb_flow(s, data, TRUE).s
           /\ ask_add_button(s, TextMsg(v)).reply = cb_flow(s, data, TRUE).reply

\* C16: in ASK_ADD_BUTTON the Yes button and the words ya, yes, y in any
\* letter case all give step ASK_BUTTON_TEXT with the draft unchanged; the
\* No button and the words tidak, no, n in any letter case all give step
\* PREVIEW with the draft unchanged and the preview sent.
C16_WordsAsButtons ==
    [][ \A uid \in UIDs :
          uid \in DOMAIN sessions /\ sessions[uid].step = ASK_ADD_BUTTON =>
          /\ SameAnswer(sessions[uid], YesWords, "btn_yes", ASK_BUTTON_TEXT)
          /\ SameAnswer(sessions[uid], NoWords, "btn_no", PREVIEW)
          /\ \A t \in {T_YA, T_YES, T_Y} :
               Message(uid, TextMsg(t)) =>
                   /\ sessions'[uid] = [sessions[uid] EXCEPT !.step = ASK_BUTTON_TEXT]
                   /\ replies' = <<"ask_button_text">>
          /\ Callback(uid, "btn_yes") =>
                   /\ sessions'[uid] = [sessions[uid] EXCEPT !.step = ASK_BUTTON_TEXT]
                   /\ replies' = <<"ask_button_text">>
          /\ \A t \in {T_TIDAK, T_NO, T_N} :
               Message(uid, TextMsg(t)) =>
                   /\ sessions'[uid] = [sessions[uid] EXCEPT !.step = PREVIEW]
                   /\ replies' = <<"preview">>
          /\ Callback(uid, "btn_no") =>
                   /\ sessions'[uid] = [sessions[uid] EXCEPT !.step = PREVIEW]
                   /\ replies' = <<"preview">> ]_vars

\* an affirmative answer was taken for a draft with a photo
C16_Witness ==
    /\ OwnerId \in DOMAIN sessions
    /\ sessions[OwnerId].step = ASK_BUTTON_TEXT
    /\ sessions[OwnerId].draft.photo_file_id = PhotoMsg.photo[Len(PhotoMsg.photo)]
    /\ sessions[OwnerId].draft.text = T_YA
    /\ replies = <<"ask_button_text">>

\* the step from the current state to the next one handles an update of
\* uid, or is a step of the dispatch run uid confirmed
HandledFor(uid) ==
    \/ \E msg \in MultiMsgs : Message(uid, msg)
    \/ \E data \in MultiButtons : Callback(uid, data)
    \/ \E target \in Operators : AdminAdd(uid, target)
    \/ Confirm(uid)
    \/ cur = uid /\ pc # "idle"

\* C17: no session is ever removed, and the session of an operator (step,
\* draft and pending label) changes only in a step that handles an update
\* of that operator, or in the dispatch run that operator confirmed.
C17_Isolation ==
    [][ \A b \in DOMAIN sessions :
          /\ b \in DOMAIN sessions'
          /\ sessions'[b] # sessions[b] => HandledFor(b) ]_vars

\* two conversations at different steps with different drafts
C17_Witness ==
    /\ DOMAIN sessions = Operators
    /\ AdminId \in admins
    /\ sessions[OwnerId].step = PREVIEW
    /\ sessions[OwnerId].draft.photo_file_id # None
    /\ sessions[OwnerId].draft.text = T_ADMIN_ADD
    /\ sessions[AdminId].step = ASK_BUTTON_URL
    /\ sessions[AdminId].temp_button_text = T_WORD
    /\ sessions[AdminId].draft.text = T_WORD

\* the send method and the file a draft asks for
ShapeOf(d) ==
    CASE d.photo_file_id # None -> <<"send_photo", d.photo_file_id>>
      [] d.photo_file_id = None /\ d.video_file_id # None ->
             <<"send_video", d.video_file_id>>
      [] d.photo_file_id = None /\ d.video_file_id = None
             /\ d.animation_file_id # None -> <<"send_animation", d.animation_file_id>>
      [] OTHER -> <<"send_message", None>>

\* C18: in a dispatch run every recipient gets at most one transport call
\* and, when the loop is over, exactly one; the method of each call and its
\* file are those of the draft's attachment (send_message without one), its
\* text is the draft's text and its keyboard has one row per button of the
\* draft, in their order (no row when there is no button).
C18_CallShape ==
    pc \in {"send", "sleep", "report"} =>
        /\ \A i \in 1..Len(attempts) :
             LET c == attempts[i].call
             IN  /\ c.chat_id = attempts[i].to
                 /\ <<c.method, c.media>> = ShapeOf(draft)
                 /\ c.text = draft.text
                 /\ Len(c.reply_markup) = Len(draft.buttons)
                 /\ \A k \in 1..Len(draft.buttons) :
                        c.reply_markup[k] = <<draft.buttons[k]>>
        /\ \A i, j \in 1..Len(attempts) : attempts[i].to = attempts[j].to => i = j
        /\ pc = "report" =>
               \A k \in 1..Len(targets) : \E i \in 1..Len(attempts) :
                   attempts[i].to = targets[k]

\* a video with one button went to two recipients
C18_Witness ==
    /\ pc = "report"
    /\ Len(attempts) = 2
    /\ attempts[1].call.method = "send_video"
    /\ attempts[2].call.media = VideoMsg.video
    /\ Len(attempts[2].call.reply_markup) = 1
    /\ attempts[1].call.text = escape(T_URL)

\* a draft that can be sent: it has a text or an attachment
Sendable(d) == d.text # <<>> \/ MediaCount(d) > 0

\* C19: the draft of every session in PREVIEW, and the draft of every
\* running do_broadcast, has a non-empty text or an attachment.
C19_PreviewSendable ==
    /\ \A uid \in DOMAIN sessions :
           sessions[uid].step = PREVIEW => Sendable(sessions[uid].draft)
    /\ pc # "idle" => Sendable(draft)

\* PREVIEW reached by a session that had been in the add-link flow before
C19_Witness ==
    /\ OwnerId \in DOMAIN sessions
    /\ sessions[OwnerId].step = PREVIEW
    /\ sessions[OwnerId].temp_link_title
    /\ sessions[OwnerId].draft.text # <<>>
    /\ MediaCount(sessions[OwnerId].draft) = 0

\* C20: a broadcast is not started while the directory resolves no
\* recipient; rows of table users are only ever added (upsert_user), so a
\* conversation that was allowed to start never ends in a dispatch run that
\* finds the directory empty.
C20_NoRunOnEmptyDirectory ==
    pc \in {"send", "sleep", "report"} => targets # <<>>

\* C21: from the confirm to the end of its handling the session of the
\* operator who confirmed is in PREVIEW with the draft that is being sent, no
\* session changes, and the transport calls come one at a time, each
\* followed by its sleep before anything else happens.
C21_OperatorBlocked ==
    [][ pc # "idle" =>
          /\ cur \in DOMAIN sessions
          /\ sessions[cur].step = PREVIEW
          /\ sessions[cur].draft = draft
          /\ pc' # "idle" => sessions' = sessions /\ cur' = cur /\ draft' = draft
          /\ attempts' # attempts /\ pc' # "idle" =>
                 /\ pc = "send" /\ pc' = "sleep"
                 /\ Len(attempts') = Len(attempts) + 1 ]_vars

\* between the second and the third transport call of a run
C21_Witness ==
    /\ pc = "sleep"
    /\ Len(attempts) = 2
    /\ Len(targets) = Cardinality(Recipients)
    /\ sessions[cur].step = PREVIEW
    /\ sessions[cur].draft = draft
    /\ draft.text # <<>>

\* C22: a run that has its list of recipients goes on to the tally: the
\* handling of the confirm ends with a tally reported and the session of the
\* operator in IDLE.
C22_RunsToCompletion ==
    \A uid \in UIDs :
        (pc \in {"send", "sleep", "report"} /\ cur = uid)
            ~> (pc = "idle" /\ tally # NoTally /\ sessions[uid].step = IDLE)

\* C23: a transport call is made only when no pause is pending, and is
\* followed at once by one pause: the short one (50 ms) after a delivery,
\* the long one (300 ms) after a failure, whatever the earlier outcomes; the
\* pause ends before the loop goes on, without a call in between.
C23_PauseAfterEachCall ==
    [][ /\ attempts' # attempts /\ attempts' # <<>> =>
             /\ pc = "send" /\ slept = 0
             /\ pc' = "sleep"
             /\ attempts' = Append(attempts, attempts'[Len(attempts')])
             /\ slept' = IF attempts'[Len(attempts')].ok THEN SuccessDelay
                         ELSE FailDelay
        /\ pc = "sleep" =>
             /\ slept \in {SuccessDelay, FailDelay}
             /\ slept = SuccessDelay <=> attempts[Len(attempts)].ok
             /\ slept' = 0 /\ attempts' = attempts /\ idx' = idx + 1
        /\ pc' = "send" => slept' = 0 ]_vars

\* the long pause runs after a failure that followed a delivery
C23_Witness ==
    /\ pc = "sleep"
    /\ slept = FailDelay
    /\ Len(attempts) = 2
    /\ attempts[1].ok
    /\ ~attempts[2].ok

\* a button list whose buttons all have a label and an HTTP(S) URL
WellFormedButtons(b) ==
    \A k \in 1..Len(b) : b[k].text # NoneText /\ HttpPrefix(lower(b[k].url))

\* C24: every button of every draft has a label and a URL that starts, in
\* any letter case, with http:// or https://; from one state to the next a
\* button list stays as it is, gets one button at its end, or becomes empty.
C24_ButtonsWellFormed ==
    [][ /\ WellFormedButtons(draft'.buttons)
        /\ \A uid \in DOMAIN sessions' :
               WellFormedButtons(sessions'[uid].draft.buttons)
        /\ \A uid \in DOMAIN sessions :
               LET b == sessions[uid].draft.buttons
                   c == sessions'[uid].draft.buttons
               IN  \/ c = b
                   \/ c = <<>>
                   \/ Len(c) = Len(b) + 1 /\ SubSeq(c, 1, Len(b)) = b ]_vars

\* a second button was appended; the URLs were typed in capitals
C24_Witness ==
    /\ OwnerId \in DOMAIN sessions
    /\ Len(sessions[OwnerId].draft.buttons) = 2
    /\ sessions[OwnerId].draft.buttons[2].url = strip(T_URL)
    /\ sessions[OwnerId].draft.buttons[2].url # lower(strip(T_URL))
    /\ replies = <<"ask_add_button_again">>

\* C25: no entry of sessions is ever removed; an entry appears only in the
\* handling of an update of its identity; ensure_session for an identity
\* without an entry adds one in IDLE with an empty draft and no pending
\* label and leaves the other entries alone, and for an identity with an
\* entry it changes nothing: handle_message sees the step broadcast_cmd set
\* on the same update.
C25_SessionsKept ==
    [][ /\ DOMAIN sessions \subseteq DOMAIN sessions'
        /\ \A uid \in DOMAIN sessions' \ DOMAIN sessions : HandledFor(uid)
        /\ \A uid \in Operators :
             is_admin(uid) /\ Message(uid, TextMsg(T_BROADCAST)) =>
                 sessions'[uid].step = ASK_TEXT
        /\ \A uid \in Operators :
             LET e == ensure_session(sessions, uid)
             IN  IF uid \in DOMAIN sessions THEN e = sessions
                 ELSE /\ DOMAIN e = DOMAIN sessions \cup {uid}
                      /\ \A b \in DOMAIN sessions : e[b] = sessions[b]
                      /\ e[uid].step = IDLE
                      /\ e[uid].draft = [text |-> <<>>, photo_file_id |-> None,
                                         video_file_id |-> None,
                                         animation_file_id |-> None,
                                         buttons |-> <<>>]
                      /\ e[uid].temp_button_text = NoneText ]_vars

\* the session of a user who is no admin was created while the owner's
\* conversation was under way
C25_Witness ==
    /\ DOMAIN sessions = Operators
    /\ AdminId \notin admins
    /\ sessions[AdminId] = Session
    /\ sessions[OwnerId].step = ASK_MEDIA
    /\ sessions[OwnerId].draft.text = T_WORD

\* C26: the pending button label of a session is set exactly while the
\* session is in ASK_BUTTON_URL.
C26_PendingOnlyInUrlStep ==
    \A uid \in DOMAIN sessions :
        sessions[uid].temp_button_text # NoneText
            <=> sessions[uid].step = ASK_BUTTON_URL

\* C27: a session in IDLE holds an empty draft.
C27_IdleDraftEmpty ==
    \A uid \in DOMAIN sessions :
        sessions[uid].step = IDLE => sessions[uid].draft = BroadcastDraft

\* the callbacks of the preview keyboard
PreviewButtons == {"preview_send", "preview_restart", "preview_cancel"}

\* C28: do_broadcast is entered only by preview_send in step PREVIEW, and
\* transport calls are made only inside it; a preview callback received in
\* any other step changes neither step nor draft and starts nothing; and
\* when a run has gone through its list the session has left PREVIEW, so
\* that the same preview cannot start a second run.
C28_OneRunPerPreview ==
    [][ /\ pc = "idle" /\ pc' # "idle"
            => /\ cur' \in DOMAIN sessions
               /\ sessions[cur'].step = PREVIEW
               /\ draft' = sessions[cur'].draft
        /\ attempts' # attempts /\ attempts' # <<>> => pc = "send"
        /\ \A uid \in UIDs, data \in PreviewButtons :
              /\ ensure_session(sessions, uid)[uid].step # PREVIEW
              /\ Callback(uid, data)
              => /\ sessions' = ensure_session(sessions, uid)
                 /\ pc' = "idle"
                 /\ attempts' = attempts
        /\ pc = "report" /\ pc' = "idle"
            => sessions'[cur].step # PREVIEW
      ]_vars

\* step and draft of uid are those of its session before the update
FlowUntouched(uid) ==
    /\ sessions'[uid].step = ensure_session(sessions, uid)[uid].step
    /\ sessions'[uid].draft = ensure_session(sessions, uid)[uid].draft

\* C29: an update from an identity that is neither the owner nor an admin
\* when it is handled, typed or pressed, changes neither the step nor the
\* draft of its session and starts no dispatch.
C29_NonAdminInert ==
    [][ \A uid \in Operators :
          ~is_admin(uid)
          => /\ \A msg \in MultiMsgs :
                  Message(uid, msg) => FlowUntouched(uid) /\ pc' = "idle"
             /\ \A data \in MultiButtons :
                  Callback(uid, data) => FlowUntouched(uid) /\ pc' = "idle"
             /\ Confirm(uid) => pc' = "idle"
      ]_vars

====
